---- MODULE Spec2Model ----
(***************************************************************************)
(* Training orchestration of src/train.py: train_net's epoch loop, the     *)
(* best-score / stall-counter bookkeeping, the two checkpoint slots and    *)
(* the resume path, across successive invocations of main().               *)
(***************************************************************************)
EXTENDS Integers, Sequences, FiniteSets, TLC

(* ---------------- bounds ---------------- *)
MaxEndEpoch == 3      \* largest args.end_epoch tried
MaxScore == 2         \* evaluation MSE scores are drawn from 1..MaxScore
NumBatches == 2       \* len(train_loader)
MaxRuns == 2          \* number of invocations of main()
MaxLoss == 2          \* per-batch training losses are drawn from 1..MaxLoss

(* ---------------- program constants ---------------- *)
Inf == 1000           \* float('inf'), above every score

Scores == 1..MaxScore
Paths == {"None", "latest", "best"}
LossValues == 1..MaxLoss

\* what torch.load and lines 33-37 can find wrong with the file at args.checkpoint
Damages == {"none", "corrupt", "no_epoch", "no_epochs_since_improvement",
            "no_model", "no_optimizer"}

\* An absent checkpoint file / args.checkpoint is None.
NoCheckpoint ==
    [epoch |-> -1, epochs_since_improvement |-> 0, best_loss |-> Inf,
     model |-> 0, optimizer |-> 0]

NoFailure == [phase |-> "none", epoch |-> -1, kind |-> "none"]
NoDiagnostic == [frame |-> "none"]
NoRef == [epoch |-> -1]
NoMem == NoCheckpoint
NoMeter == [val |-> 0, sum |-> 0, count |-> 0]
NoLoss == [num |-> 0, den |-> 0]

VARIABLES
    pc,                        \* phase of the current invocation
    args,                      \* parsed command line: checkpoint path, end_epoch
    runs,                      \* invocations of main() so far
    checkpoint,                \* the loaded checkpoint dict (NoCheckpoint when None)
    start_epoch, epoch, batch, \* loop positions (batch is train's i)
    best_loss, epochs_since_improvement, is_best, mse_loss,
    model, optimizer,          \* opaque blobs, modelled as optimizer steps taken
    latest, best,              \* the two checkpoint slots on disk
    failure, diagnostic,       \* how and where the invocation died, what it printed
    seen,                      \* history: MSE scores returned to this invocation
    saved,                     \* history: epochs this invocation wrote to "latest"
    maxLatest,                 \* history: largest epoch ever written to "latest"
    mem,                       \* history: in-memory state of the writer of "latest"
    ref,                       \* history: what an uninterrupted run would hold
    bpc,                       \* train(): next statement of the batch body
    loss,                      \* train(): loss of the batch in hand
    grad,                      \* gradient buffers: "none", "zero", "raw", "clipped"
    losses,                    \* train(): the AverageMeter
    train_loss,                \* losses.avg as returned by train(), num/den
    log,                       \* history: calls of this invocation, in order
    ops,                       \* history: statements done in the batch in hand
    epochLosses,               \* history: losses fed to the meter in this train()
    damage                     \* condition of the file at args.checkpoint

vars == <<pc, args, runs, checkpoint, start_epoch, epoch, batch, best_loss,
          epochs_since_improvement, is_best, mse_loss, model, optimizer,
          latest, best, failure, diagnostic, seen, saved, maxLatest, mem, ref,
          bpc, loss, grad, losses, train_loss, log, ops, epochLosses, damage>>

batchVars == <<bpc, loss, grad, ops>>
meterVars == <<losses, train_loss, epochLosses>>

(* ---------------- pure pieces of train_net ---------------- *)
\* variant: the loop restarts at the saved epoch itself
StartEpoch_Same(ck) == ck.epoch

\* variant: the loaded epoch is ignored and the loop restarts at 0
StartEpoch_Zero(ck) == 0

\* line 33
StartEpoch(ck) == ck.epoch + 1

\* line 34
LoadedStall(ck) == ck.epochs_since_improvement

\* variant: a checkpoint without optimizer is accepted
Loads_Lenient(dmg) == dmg \in {"none", "no_optimizer"}

\* lines 32-37 run through only on a file that unpickles and has every key read
Loads(dmg) == dmg = "none"

\* the line that raises on a damaged file
RaisesAt(dmg) ==
    CASE dmg = "corrupt" -> 32
      [] dmg = "no_epoch" -> 33
      [] dmg = "no_epochs_since_improvement" -> 34
      [] dmg = "no_model" -> 35
      [] dmg = "no_optimizer" -> 37
      [] OTHER -> 32

\* line 20: best_loss is float('inf') on every start, with or without a checkpoint
InitialBestLoss(ck) == Inf

\* variant: an equal score counts as an improvement
IsBest_NonStrict(mse, bl) == mse <= bl

\* line 86
IsBest(mse, bl) == mse < bl

\* variant: the newest score replaces the best one
NewBestLoss_Newest(mse, bl) == mse

\* line 87
NewBestLoss(mse, bl) == IF mse < bl THEN mse ELSE bl

\* variant: the counter is not reset on an improvement
NewStall_NoReset(isb, esi) == IF ~isb THEN esi + 1 ELSE esi

\* variant: the counter counts every epoch
NewStall_CountAll(isb, esi) == esi + 1

\* lines 88-92
NewStall(isb, esi) == IF ~isb THEN esi + 1 ELSE 0

\* variant: the loop also stops after an epoch without improvement
LoopContinues_Patience(e, end, esi) == e < end /\ esi < 1

\* line 55: range(start_epoch, end_epoch) yields e iff e < end_epoch;
\* the stall counter does not enter the decision
LoopContinues(e, end, esi) == e < end

\* the state dict handed to save_checkpoint (line 95)
TrainingState(e, esi, m, o, bl) ==
    [epoch |-> e, epochs_since_improvement |-> esi, best_loss |-> bl,
     model |-> m, optimizer |-> o]

\* save_checkpoint: "latest" always, "best" only when is_best
SaveLatest(state, old) == state
SaveBest(state, isb, old) == IF isb THEN state ELSE old

Slot(path) == IF path = "latest" THEN latest
              ELSE IF path = "best" THEN best ELSE NoCheckpoint

\* variant: the exception is swallowed and the process exits silently
Traceback_Silent(frame) == NoDiagnostic

\* the traceback of an exception nobody catches: it names the call of
\* train_net that raised and nothing of the training state
Traceback(frame) == [frame |-> frame]

Max(a, b) == IF a > b THEN a ELSE b

\* variant: train() returns after every batch
AfterBatch_Early(done) == "EVALUATING"

\* line 104 exhausted, line 138: train() returns after the last batch
AfterBatch(done) == IF done = NumBatches THEN "EVALUATING" ELSE "RUNNING_EPOCH"

\* variant: the optimizer steps before the gradients are clipped
NextOp_StepBeforeClip(op) ==
    CASE op = "forward" -> "zero_grad"
      [] op = "zero_grad" -> "backward"
      [] op = "backward" -> "step"
      [] op = "step" -> "clip_gradient"
      [] op = "clip_gradient" -> "update"
      [] OTHER -> "forward"

\* program order of the batch body, lines 111-129
NextOp(op) ==
    CASE op = "forward" -> "zero_grad"
      [] op = "zero_grad" -> "backward"
      [] op = "backward" -> "clip_gradient"
      [] op = "clip_gradient" -> "step"
      [] op = "step" -> "update"
      [] OTHER -> "forward"

\* clip_gradient clamps the gradients that backward left
Clip(g) == IF g = "raw" THEN "clipped" ELSE g

\* variant: one meter is kept across the calls of train()
NewMeter_Keep(old) == old

\* line 101: a new AverageMeter for every call of train()
NewMeter(old) == [val |-> 0, sum |-> 0, count |-> 0]

\* AverageMeter.update and .avg
MeterUpdate(m, v) == [val |-> v, sum |-> m.sum + v, count |-> m.count + 1]
MeterAvg(m) == [num |-> m.sum, den |-> m.count]

Call(name, e) == [call |-> name, epoch |-> e]

(* ---------------- initial state: nothing run, nothing on disk ---------------- *)
Init ==
    /\ pc = "IDLE"
    /\ args = [checkpoint |-> "None", end_epoch |-> 0]
    /\ runs = 0
    /\ checkpoint = NoCheckpoint
    /\ start_epoch = 0
    /\ epoch = -1
    /\ batch = 0
    /\ best_loss = Inf
    /\ epochs_since_improvement = 0
    /\ is_best = FALSE
    /\ mse_loss = 0
    /\ model = 0
    /\ optimizer = 0
    /\ latest = NoCheckpoint
    /\ best = NoCheckpoint
    /\ failure = NoFailure
    /\ diagnostic = NoDiagnostic
    /\ seen = <<>>
    /\ saved = <<>>
    /\ maxLatest = -1
    /\ mem = NoMem
    /\ ref = NoRef
    /\ bpc = "forward"
    /\ loss = 0
    /\ grad = "none"
    /\ losses = NoMeter
    /\ train_loss = NoLoss
    /\ log = <<>>
    /\ ops = <<>>
    /\ epochLosses = <<>>
    /\ damage = "none"

(* ---------------- main(): parse_args and call train_net ---------------- *)
Launch(path, end, dmg) ==
    /\ pc \in {"IDLE", "TERMINATED", "FAILED"}
    /\ runs < MaxRuns
    /\ path = "None" => dmg = "none"
    /\ damage' = dmg
    /\ pc' = "INITIALIZING"
    /\ args' = [checkpoint |-> path, end_epoch |-> end]
    /\ runs' = runs + 1
    /\ failure' = NoFailure
    /\ diagnostic' = NoDiagnostic
    /\ UNCHANGED <<checkpoint, start_epoch, epoch, batch, best_loss,
                   epochs_since_improvement, is_best, mse_loss, model,
                   optimizer, latest, best, seen, saved, maxLatest, mem, ref,
                   batchVars, meterVars, log>>

(* ---------------- train_net lines 16-55: construct or restore ---------------- *)
Initialize ==
    /\ pc = "INITIALIZING"
    /\ args.checkpoint # "None" => Slot(args.checkpoint) # NoCheckpoint
    /\ Loads(damage)
    /\ LET ck == Slot(args.checkpoint)
           fresh == args.checkpoint = "None"
           se == IF fresh THEN 0 ELSE StartEpoch(ck)
           esi == IF fresh THEN 0 ELSE LoadedStall(ck)
           cont == LoopContinues(se, args.end_epoch, esi)
       IN  /\ checkpoint' = ck
           /\ start_epoch' = se
           /\ epochs_since_improvement' = esi
           /\ best_loss' = InitialBestLoss(ck)
           /\ model' = IF fresh THEN 0 ELSE ck.model
           /\ optimizer' = IF fresh THEN 0 ELSE ck.optimizer
           /\ pc' = IF cont THEN "RUNNING_EPOCH" ELSE "TERMINATED"
           /\ epoch' = IF cont THEN se ELSE -1
    /\ batch' = 0
    /\ is_best' = FALSE
    /\ mse_loss' = 0
    /\ seen' = <<>>
    /\ saved' = <<>>
    /\ ref' = NoRef
    /\ bpc' = "forward"
    /\ loss' = 0
    /\ grad' = "none"
    /\ ops' = <<>>
    /\ losses' = NewMeter(NoMeter)
    /\ train_loss' = NoLoss
    /\ epochLosses' = <<>>
    /\ log' = <<>>
    /\ UNCHANGED <<args, runs, latest, best, failure, diagnostic, maxLatest, mem,
                   damage>>

\* lines 32-37: torch.load raises on a missing or corrupt file, a missing key
\* raises at the line that reads it; what was assigned before stays assigned
InitializeFail ==
    /\ pc = "INITIALIZING"
    /\ args.checkpoint # "None"
    /\ Slot(args.checkpoint) = NoCheckpoint \/ ~Loads(damage)
    /\ LET ck == Slot(args.checkpoint)
           at == IF ck = NoCheckpoint THEN 32 ELSE RaisesAt(damage)
       IN  /\ diagnostic' = Traceback(IF at = 32 THEN "torch.load" ELSE "train_net")
           /\ checkpoint' = IF at > 32 THEN ck ELSE NoCheckpoint
           /\ start_epoch' = IF at > 33 THEN StartEpoch(ck) ELSE 0
           /\ epochs_since_improvement' = IF at > 34 THEN LoadedStall(ck) ELSE 0
           /\ model' = IF at > 35 THEN ck.model ELSE 0
    /\ pc' = "FAILED"
    /\ failure' = [phase |-> "INITIALIZING", epoch |-> -1, kind |-> "exception"]
    /\ best_loss' = Inf
    /\ epoch' = -1
    /\ batch' = 0
    /\ is_best' = FALSE
    /\ mse_loss' = 0
    /\ optimizer' = 0
    /\ seen' = <<>>
    /\ saved' = <<>>
    /\ ref' = NoRef
    /\ bpc' = "forward"
    /\ loss' = 0
    /\ grad' = "none"
    /\ ops' = <<>>
    /\ losses' = NoMeter
    /\ train_loss' = NoLoss
    /\ epochLosses' = <<>>
    /\ log' = <<>>
    /\ UNCHANGED <<args, runs, latest, best, maxLatest, mem, damage>>

(* ---------------- train(): the batch body, lines 104-138 ---------------- *)
\* lines 106-116: forward pass and loss
Forward(l) ==
    /\ pc = "RUNNING_EPOCH"
    /\ bpc = "forward"
    /\ batch < NumBatches
    /\ loss' = l
    /\ bpc' = NextOp("forward")
    /\ ops' = Append(ops, "forward")
    /\ log' = Append(log, Call("begin", epoch))
    /\ UNCHANGED <<pc, args, runs, checkpoint, start_epoch, epoch, batch, best_loss,
                   epochs_since_improvement, is_best, mse_loss, model, optimizer,
                   latest, best, failure, diagnostic, seen, saved, maxLatest,
                   mem, ref, grad, meterVars,
                   damage>>

\* line 119
ZeroGrad ==
    /\ pc = "RUNNING_EPOCH"
    /\ bpc = "zero_grad"
    /\ grad' = "zero"
    /\ bpc' = NextOp("zero_grad")
    /\ ops' = Append(ops, "zero_grad")
    /\ UNCHANGED <<pc, args, runs, checkpoint, start_epoch, epoch, batch, best_loss,
                   epochs_since_improvement, is_best, mse_loss, model, optimizer,
                   latest, best, failure, diagnostic, seen, saved, maxLatest,
                   mem, ref, loss, log, meterVars,
                   damage>>

\* line 120
Backward ==
    /\ pc = "RUNNING_EPOCH"
    /\ bpc = "backward"
    /\ grad' = "raw"
    /\ bpc' = NextOp("backward")
    /\ ops' = Append(ops, "backward")
    /\ UNCHANGED <<pc, args, runs, checkpoint, start_epoch, epoch, batch, best_loss,
                   epochs_since_improvement, is_best, mse_loss, model, optimizer,
                   latest, best, failure, diagnostic, seen, saved, maxLatest,
                   mem, ref, loss, log, meterVars,
                   damage>>

\* line 123
ClipGradient ==
    /\ pc = "RUNNING_EPOCH"
    /\ bpc = "clip_gradient"
    /\ grad' = Clip(grad)
    /\ bpc' = NextOp("clip_gradient")
    /\ ops' = Append(ops, "clip_gradient")
    /\ UNCHANGED <<pc, args, runs, checkpoint, start_epoch, epoch, batch, best_loss,
                   epochs_since_improvement, is_best, mse_loss, model, optimizer,
                   latest, best, failure, diagnostic, seen, saved, maxLatest,
                   mem, ref, loss, log, meterVars,
                   damage>>

\* line 126
OptimizerStep ==
    /\ pc = "RUNNING_EPOCH"
    /\ bpc = "step"
    /\ model' = model + 1
    /\ optimizer' = optimizer + 1
    /\ bpc' = NextOp("step")
    /\ ops' = Append(ops, "step")
    /\ UNCHANGED <<pc, args, runs, checkpoint, start_epoch, epoch, batch, best_loss,
                   epochs_since_improvement, is_best, mse_loss,
                   latest, best, failure, diagnostic, seen, saved, maxLatest,
                   mem, ref, loss, grad, log, meterVars,
                   damage>>

\* lines 129-138: the meter takes the loss, the batch ends, and after the last
\* batch train() returns losses.avg
TrainBatch ==
    /\ pc = "RUNNING_EPOCH"
    /\ bpc = "update"
    /\ batch < NumBatches
    /\ losses' = MeterUpdate(losses, loss)
    /\ epochLosses' = Append(epochLosses, loss)
    /\ batch' = batch + 1
    /\ bpc' = NextOp("update")
    /\ ops' = <<>>
    /\ log' = Append(log, Call("end", epoch))
    /\ pc' = AfterBatch(batch + 1)
    /\ train_loss' = IF AfterBatch(batch + 1) = "EVALUATING"
                     THEN MeterAvg(losses') ELSE train_loss
    /\ UNCHANGED <<args, runs, checkpoint, start_epoch, epoch, best_loss,
                   epochs_since_improvement, is_best, mse_loss, model, optimizer,
                   latest, best, failure, diagnostic, seen, saved, maxLatest,
                   mem, ref, loss, grad,
                   damage>>

(* ---------------- test(model), lines 77-83 ---------------- *)
Evaluate(mse) ==
    /\ pc = "EVALUATING"
    /\ mse_loss' = mse
    /\ seen' = Append(seen, mse)
    /\ pc' = "CHECKPOINTING"
    /\ log' = Append(log, Call("test", epoch))
    /\ UNCHANGED <<args, runs, checkpoint, start_epoch, epoch, batch, best_loss,
                   epochs_since_improvement, is_best, model, optimizer, latest,
                   best, failure, diagnostic, saved, maxLatest, mem, ref,
                   batchVars, meterVars,
                   damage>>

\* the state an uninterrupted run holds after the epoch that follows the one
\* whose in-memory state is m, fed the score mse
Uninterrupted(m, mse, oldBest) ==
    LET isb == IsBest(mse, m.best_loss)
        st == TrainingState(m.epoch + 1, NewStall(isb, m.epochs_since_improvement),
                            m.model + NumBatches, m.optimizer + NumBatches,
                            NewBestLoss(mse, m.best_loss))
    IN  [epoch |-> st.epoch, is_best |-> isb, state |-> st,
         latest |-> SaveLatest(st, m), best |-> SaveBest(st, isb, oldBest)]

(* ---------------- lines 85-95, then the loop head of line 55 ---------------- *)
Checkpoint ==
    /\ pc = "CHECKPOINTING"
    /\ LET isb == IsBest(mse_loss, best_loss)
           bl == NewBestLoss(mse_loss, best_loss)
           esi == NewStall(isb, epochs_since_improvement)
           state == TrainingState(epoch, esi, model, optimizer, bl)
           cont == LoopContinues(epoch + 1, args.end_epoch, esi)
       IN  /\ is_best' = isb
           /\ best_loss' = bl
           /\ epochs_since_improvement' = esi
           /\ latest' = SaveLatest(state, latest)
           /\ best' = SaveBest(state, isb, best)
           /\ mem' = state
           /\ pc' = IF cont THEN "RUNNING_EPOCH" ELSE "TERMINATED"
           /\ epoch' = IF cont THEN epoch + 1 ELSE epoch
           /\ batch' = IF cont THEN 0 ELSE batch
           /\ losses' = IF cont THEN NewMeter(losses) ELSE losses
           /\ epochLosses' = IF cont THEN <<>> ELSE epochLosses
    /\ log' = Append(log, Call("save", epoch))
    /\ saved' = Append(saved, epoch)
    /\ maxLatest' = Max(maxLatest, epoch)
    /\ ref' = IF args.checkpoint = "latest" /\ epoch = start_epoch /\ mem # NoMem
              THEN Uninterrupted(mem, mse_loss, best)
              ELSE NoRef
    /\ UNCHANGED <<args, runs, checkpoint, start_epoch, mse_loss, model,
                   optimizer, failure, diagnostic, seen, batchVars, train_loss,
                   damage>>

(* ---------------- failures: nothing in train_net or main catches ---------------- *)
Kinds == {"exception", "killed"}

\* variant: the failure is caught and the epoch is tried again
Dies_Retry(phase, kind, frame) ==
    /\ pc' = "RUNNING_EPOCH"
    /\ failure' = [phase |-> phase, epoch |-> epoch, kind |-> kind]
    /\ diagnostic' = IF kind = "exception" THEN Traceback(frame) ELSE NoDiagnostic

Dies(phase, kind, frame) ==
    /\ pc' = "FAILED"
    /\ failure' = [phase |-> phase, epoch |-> epoch, kind |-> kind]
    /\ diagnostic' = IF kind = "exception" THEN Traceback(frame) ELSE NoDiagnostic

FailTrain(kind) ==
    /\ pc = "RUNNING_EPOCH"
    /\ Dies("RUNNING_EPOCH", kind, "train")
    /\ UNCHANGED <<args, runs, checkpoint, start_epoch, epoch, batch, best_loss,
                   epochs_since_improvement, is_best, mse_loss, model, optimizer,
                   latest, best, seen, saved, maxLatest, mem, ref,
                   batchVars, meterVars, log,
                   damage>>

FailEvaluate(kind) ==
    /\ pc = "EVALUATING"
    /\ Dies("EVALUATING", kind, "test")
    /\ UNCHANGED <<args, runs, checkpoint, start_epoch, epoch, batch, best_loss,
                   epochs_since_improvement, is_best, mse_loss, model, optimizer,
                   latest, best, seen, saved, maxLatest, mem, ref,
                   batchVars, meterVars, log,
                   damage>>

\* save_checkpoint dies: before any write, or after "latest" and before "best"
FailCheckpoint(kind, wroteLatest) ==
    /\ pc = "CHECKPOINTING"
    /\ Dies("CHECKPOINTING", kind, "save_checkpoint")
    /\ LET isb == IsBest(mse_loss, best_loss)
           bl == NewBestLoss(mse_loss, best_loss)
           esi == NewStall(isb, epochs_since_improvement)
           state == TrainingState(epoch, esi, model, optimizer, bl)
       IN  /\ is_best' = isb
           /\ best_loss' = bl
           /\ epochs_since_improvement' = esi
           /\ latest' = IF wroteLatest THEN SaveLatest(state, latest) ELSE latest
    /\ saved' = IF wroteLatest THEN Append(saved, epoch) ELSE saved
    /\ maxLatest' = IF wroteLatest THEN Max(maxLatest, epoch) ELSE maxLatest
    /\ mem' = IF wroteLatest THEN NoMem ELSE mem
    /\ ref' = NoRef
    /\ UNCHANGED <<args, runs, checkpoint, start_epoch, epoch, batch, mse_loss,
                   model, optimizer, best, seen, batchVars, meterVars, log,
                   damage>>

Next ==
    \/ \E path \in Paths, end \in 0..MaxEndEpoch, dmg \in Damages :
           Launch(path, end, dmg)
    \/ Initialize
    \/ InitializeFail
    \/ \E l \in LossValues : Forward(l)
    \/ ZeroGrad
    \/ Backward
    \/ ClipGradient
    \/ OptimizerStep
    \/ TrainBatch
    \/ \E mse \in Scores : Evaluate(mse)
    \/ Checkpoint
    \/ \E kind \in Kinds : FailTrain(kind)
    \/ \E kind \in Kinds : FailEvaluate(kind)
    \/ \E kind \in Kinds, w \in BOOLEAN : FailCheckpoint(kind, w)

Spec == Init /\ [][Next]_vars

\* The single control thread keeps going unless it fails or is killed.
FairSpec ==
    /\ Spec
    /\ WF_vars(Initialize)
    /\ WF_vars(\E l \in LossValues : Forward(l))
    /\ WF_vars(ZeroGrad)
    /\ WF_vars(Backward)
    /\ WF_vars(ClipGradient)
    /\ WF_vars(OptimizerStep)
    /\ WF_vars(TrainBatch)
    /\ WF_vars(\E mse \in Scores : Evaluate(mse))
    /\ WF_vars(Checkpoint)

TypeOK ==
    /\ pc \in {"IDLE", "INITIALIZING", "RUNNING_EPOCH", "EVALUATING",
               "CHECKPOINTING", "TERMINATED", "FAILED"}
    /\ runs \in 0..MaxRuns
    /\ epoch \in -1..MaxEndEpoch
    /\ batch \in 0..NumBatches
    /\ best_loss \in Scores \cup {Inf}
    /\ epochs_since_improvement \in Nat
    /\ is_best \in BOOLEAN
    /\ bpc \in {"forward", "zero_grad", "backward", "clip_gradient", "step", "update"}
    /\ grad \in {"none", "zero", "raw", "clipped"}
    /\ losses.count \in 0..NumBatches

(* ======================= properties ======================= *)
Completes == pc = "CHECKPOINTING" /\ pc' \in {"RUNNING_EPOCH", "TERMINATED"}

RECURSIVE SeqMin(_, _)
SeqMin(sq, acc) ==
    IF sq = <<>> THEN acc
    ELSE SeqMin(Tail(sq), IF Head(sq) < acc THEN Head(sq) ELSE acc)

Front(sq) == SubSeq(sq, 1, Len(sq) - 1)

\* C1: after every completed epoch the stall counter is 0 if the epoch's MSE is
\* strictly below the best score held before the epoch, and the previous
\* counter plus 1 otherwise.
C1_StallRule ==
    [][Completes =>
         epochs_since_improvement' =
             IF mse_loss < best_loss THEN 0 ELSE epochs_since_improvement + 1]_vars

C1_Witness ==
    /\ Len(saved) = 3
    /\ epochs_since_improvement = 0
    /\ seen[1] = 2 /\ seen[2] = 2 /\ seen[3] = 1

\* C4: a resumed run starts its loop at the loaded epoch plus one, the first
\* epoch it saves is that one, and it enters it with the loaded stall counter.
C4_ResumeStart ==
    (checkpoint # NoCheckpoint /\ pc # "INITIALIZING"
        /\ failure.phase # "INITIALIZING") =>
        /\ start_epoch = checkpoint.epoch + 1
        /\ saved # <<>> => saved[1] = checkpoint.epoch + 1
        /\ (pc \in {"RUNNING_EPOCH", "EVALUATING", "CHECKPOINTING"} /\ saved = <<>>) =>
               /\ epoch = checkpoint.epoch + 1
               /\ epochs_since_improvement = checkpoint.epochs_since_improvement

C4_Witness ==
    /\ checkpoint # NoCheckpoint
    /\ checkpoint.epochs_since_improvement = 1
    /\ pc = "TERMINATED"
    /\ Len(saved) = 1
    /\ latest.epoch = checkpoint.epoch + 1

\* C5: a completed epoch always writes its state to "latest", and to "best"
\* exactly when is_best, which is mse < best score before the epoch; an epoch
\* whose MSE equals the best score leaves "best" alone.
C5_SaveRule ==
    [][Completes =>
         /\ is_best' = (mse_loss < best_loss)
         /\ latest' = TrainingState(epoch, epochs_since_improvement', model,
                                    optimizer, best_loss')
         /\ is_best' => best' = latest'
         /\ ~is_best' => best' = best
         /\ mse_loss = best_loss => (best' = best /\ best' # latest')]_vars

C5_Witness ==
    /\ Len(saved) = 2
    /\ seen[1] = seen[2]
    /\ ~is_best
    /\ latest.epoch = best.epoch + 1
    /\ best # NoCheckpoint

\* C6: within a run the best score never increases from one epoch to the next
\* and equals the minimum of +infinity and every MSE score the run has seen.
C6_BestIsRunningMin ==
    /\ [](best_loss = SeqMin(IF pc = "CHECKPOINTING" THEN Front(seen) ELSE seen, Inf))
    /\ [][pc = "CHECKPOINTING" => best_loss' <= best_loss]_vars

C6_Witness ==
    /\ Len(seen) = 3
    /\ pc = "TERMINATED"
    /\ seen[1] = 2 /\ seen[2] = 1 /\ seen[3] = 2
    /\ best_loss = 1

Resumed == checkpoint # NoCheckpoint
AfterFirstEpoch == Len(saved) = 1 /\ pc # "CHECKPOINTING"

\* C2: a resumed run compares its first epoch's MSE with the best score of the
\* loaded checkpoint: a first epoch that is not strictly below it is not
\* is_best, does not reset the stall counter and does not overwrite "best".
C2_ResumeReusesBest ==
    (Resumed /\ AfterFirstEpoch /\ pc # "FAILED"
        /\ mse_loss >= checkpoint.best_loss) =>
        /\ ~is_best
        /\ epochs_since_improvement = checkpoint.epochs_since_improvement + 1
        /\ best.epoch # latest.epoch

\* C3: a run resumed from the checkpoint of epoch k holds after epoch k+1 the
\* state (epoch, stall counter, best score, is_best, both slots) that the
\* uninterrupted run holds after epoch k+1 on the same score.
C3_ResumeIdempotent ==
    ref # NoRef =>
        /\ ref.epoch = latest.epoch
        /\ ref.is_best = is_best
        /\ ref.state.epochs_since_improvement = epochs_since_improvement
        /\ ref.state.best_loss = best_loss
        /\ ref.latest = latest
        /\ ref.best = best

Writes == Len(saved') > Len(saved)

\* C7 as stated: every epoch written to "latest", by the first run or by a run
\* resumed from "latest" or "best", exceeds every epoch written there before.
C7_EpochIncreasesEverywhere ==
    [][(Writes /\ (runs = 1 \/ args.checkpoint # "None")) =>
          latest'.epoch > maxLatest]_vars

\* C7 (amended): the epochs one run writes to "latest" strictly increase, and
\* a run resumed from "latest" writes epochs strictly above the one it loaded
\* and above the one the slot holds.
C7_EpochIncreasesInRun ==
    [][Writes =>
          /\ \A j \in 1..Len(saved) : latest'.epoch > saved[j]
          /\ saved # <<>> => latest'.epoch > latest.epoch
          /\ args.checkpoint = "latest" =>
                 /\ latest'.epoch > checkpoint.epoch
                 /\ latest'.epoch > latest.epoch]_vars

C7_Witness ==
    /\ runs = 2
    /\ args.checkpoint = "latest"
    /\ Len(saved) = 2
    /\ checkpoint.epoch = 0
    /\ latest.epoch = 2

InRun == pc \in {"RUNNING_EPOCH", "EVALUATING", "CHECKPOINTING"}

\* C8: the loop ends at end_epoch and never earlier on account of the stall
\* counter: a run that reaches TERMINATED has executed and saved exactly the
\* epochs start_epoch .. end_epoch-1 (none when start_epoch >= end_epoch), a
\* run that does not fail reaches TERMINATED, and a TERMINATED run changes
\* nothing any more.
C8_RunsToEndEpoch ==
    /\ [](pc = "TERMINATED" =>
             /\ Len(saved) = Max(0, args.end_epoch - start_epoch)
             /\ \A j \in 1..Len(saved) : saved[j] = start_epoch + j - 1)
    /\ [][pc = "TERMINATED" =>
             /\ pc' = "INITIALIZING"
             /\ UNCHANGED <<checkpoint, start_epoch, epoch, batch, best_loss,
                            epochs_since_improvement, is_best, mse_loss, model,
                            optimizer, latest, best, saved, seen>>]_vars
    /\ (InRun ~> pc \in {"TERMINATED", "FAILED"})

C8_Witness ==
    /\ pc = "TERMINATED"
    /\ start_epoch = 0
    /\ args.end_epoch = 3
    /\ epochs_since_improvement = 2
    /\ saved = <<0, 1, 2>>

\* C9: a failure or kill during the batches or the evaluation of epoch k ends
\* the run there: no retry, no checkpoint for epoch k, and both slots stay as
\* the checkpoint of epoch k-1 left them.
C9_FailureLosesOnlyEpoch ==
    [][/\ pc \in {"RUNNING_EPOCH", "EVALUATING"} =>
              /\ latest' = latest /\ best' = best /\ saved' = saved
              /\ failure' # NoFailure =>
                     /\ pc' = "FAILED"
                     /\ failure'.epoch = epoch
                     /\ \A j \in 1..Len(saved') : saved'[j] # epoch
                     /\ saved # <<>> => latest'.epoch = epoch - 1
       /\ pc = "FAILED" =>
              /\ latest' = latest /\ best' = best
              /\ pc' = "INITIALIZING"
              /\ UNCHANGED <<epoch, batch, model, optimizer, saved>>]_vars

C9_Witness ==
    /\ pc = "FAILED"
    /\ failure.phase = "EVALUATING"
    /\ failure.epoch = 2
    /\ latest.epoch = 1
    /\ best.epoch = 0
    /\ saved = <<0, 1>>

FrameOf(phase) ==
    CASE phase = "RUNNING_EPOCH" -> "train"
      [] phase = "EVALUATING" -> "test"
      [] phase = "CHECKPOINTING" -> "save_checkpoint"
      [] OTHER -> "torch.load"

Raised == pc = "FAILED" /\ failure.kind = "exception" /\ failure.phase # "INITIALIZING"

\* C10 as stated: a run that halts on a failure prints the phase it failed in
\* and the last persisted epoch number.
C10_DiagnosticNamesPhaseAndEpoch ==
    Raised =>
        /\ diagnostic.frame = FrameOf(failure.phase)
        /\ "persisted_epoch" \in DOMAIN diagnostic
        /\ diagnostic.persisted_epoch = latest.epoch

\* C10 (amended): a run that halts on an exception prints the traceback of the
\* uncaught exception, which names the call that raised (train, test or
\* save_checkpoint) and no epoch number.
C10_TracebackNamesCall ==
    Raised =>
        /\ diagnostic.frame = FrameOf(failure.phase)
        /\ DOMAIN diagnostic = {"frame"}

C10_Witness ==
    /\ Raised
    /\ failure.phase = "CHECKPOINTING"
    /\ failure.epoch = 1
    /\ latest.epoch = 0
    /\ diagnostic.frame = "save_checkpoint"

Period == 2 * NumBatches + 2

\* the p-th call of an invocation: for each epoch from start_epoch on, the
\* batches one after the other, then test, then save_checkpoint
ExpectedCall(p) ==
    LET k == (p - 1) \div Period
        r == (p - 1) % Period
        name == IF r < 2 * NumBatches
                THEN (IF r % 2 = 0 THEN "begin" ELSE "end")
                ELSE IF r = 2 * NumBatches THEN "test" ELSE "save"
    IN  Call(name, start_epoch + k)

\* C11: every epoch runs its batches, then test exactly once, then the
\* bookkeeping and save exactly once, and the first batch of the next epoch
\* starts only after that save has returned.
C11_PhaseOrder ==
    /\ \A p \in 1..Len(log) : log[p] = ExpectedCall(p)
    /\ (pc = "RUNNING_EPOCH" /\ batch = 0 /\ log # <<>>) =>
           \/ log[Len(log)] = Call("save", epoch - 1)
           \/ log[Len(log)] = Call("begin", epoch)
    /\ pc = "EVALUATING" => log[Len(log)] = Call("end", epoch)
    /\ pc = "CHECKPOINTING" => log[Len(log)] = Call("test", epoch)

C11_Witness ==
    /\ Len(log) = 2 * Period + 1
    /\ pc = "RUNNING_EPOCH"
    /\ epoch = start_epoch + 2
    /\ log[2 * Period] = Call("save", epoch - 1)

OpOrder == <<"forward", "zero_grad", "backward", "clip_gradient", "step">>

\* C12: in every batch the gradients are cleared, then backward runs, then the
\* gradients are clipped, then the optimizer steps: one step per batch, taken
\* right after the clipping and never on gradients that were not clipped.
C12_ClipThenStep ==
    /\ [](/\ Len(ops) <= Len(OpOrder)
          /\ ops = SubSeq(OpOrder, 1, Len(ops)))
    /\ [][(pc = "RUNNING_EPOCH" /\ optimizer' # optimizer) =>
             /\ optimizer' = optimizer + 1
             /\ grad = "clipped"
             /\ ops = SubSeq(OpOrder, 1, 4)]_vars
    /\ [][(pc = "RUNNING_EPOCH" /\ batch' = batch + 1) => ops = OpOrder]_vars

C12_Witness ==
    /\ pc = "RUNNING_EPOCH"
    /\ batch = 1
    /\ bpc = "update"
    /\ ops = OpOrder
    /\ grad = "clipped"
    /\ optimizer = epoch * NumBatches + 2

LoadFailed == failure.phase = "INITIALIZING"

\* C13: a checkpoint file that is missing, corrupt or lacks a key that lines
\* 33-37 read makes the run fail while INITIALIZING: before any batch, any
\* evaluation and any write, and with both slots as they were.
C13_LoadFailureAbortsEarly ==
    /\ [](LoadFailed =>
             /\ pc = "FAILED"
             /\ log = <<>> /\ ops = <<>> /\ batch = 0
             /\ seen = <<>> /\ saved = <<>>
             /\ epochLosses = <<>>)
    /\ [][pc = "INITIALIZING" =>
             /\ latest' = latest /\ best' = best
             /\ (damage # "none" => (pc' = "FAILED" /\ LoadFailed'))
             /\ ((args.checkpoint # "None" /\ Slot(args.checkpoint) = NoCheckpoint)
                     => (pc' = "FAILED" /\ LoadFailed'))]_vars

C13_Witness ==
    /\ pc = "FAILED"
    /\ LoadFailed
    /\ damage = "no_optimizer"
    /\ args.checkpoint = "latest"
    /\ latest.epoch = 1
    /\ best.epoch = 0
    /\ start_epoch = 2
    /\ model = latest.model

RECURSIVE SeqSum(_)
SeqSum(sq) == IF sq = <<>> THEN 0 ELSE Head(sq) + SeqSum(Tail(sq))

\* C14: the training loss train() returns is the mean of that epoch's batch
\* losses alone: the meter is empty when the epoch starts, takes one update per
\* batch, and its average at the end is the sum of this epoch's losses over
\* their number.
C14_EpochMean ==
    /\ [](pc = "RUNNING_EPOCH" =>
             /\ losses.count = batch
             /\ losses.count = Len(epochLosses)
             /\ losses.sum = SeqSum(epochLosses)
             /\ batch = 0 => losses = NoMeter)
    /\ [][(pc = "RUNNING_EPOCH" /\ pc' = "EVALUATING") =>
             /\ Len(epochLosses') = NumBatches
             /\ train_loss'.num = SeqSum(epochLosses')
             /\ train_loss'.den = NumBatches]_vars

C14_Witness ==
    /\ pc = "EVALUATING"
    /\ epoch = start_epoch + 1
    /\ epochLosses = <<2, 1>>
    /\ train_loss = [num |-> 3, den |-> 2]

\* a fresh run that has completed an epoch and has not failed
FreshRunning ==
    /\ args.checkpoint = "None"
    /\ saved # <<>>
    /\ pc \in {"RUNNING_EPOCH", "EVALUATING", "CHECKPOINTING", "TERMINATED"}

\* the scores of the epochs completed so far
Done == SubSeq(seen, 1, Len(saved))

\* epoch number j (counted from 1) brought no improvement
NoImprovement(j) == j > 1 /\ Done[j] >= SeqMin(SubSeq(Done, 1, j - 1), Inf)

RECURSIVE Trailing(_)
Trailing(n) == IF n >= 1 /\ NoImprovement(n) THEN 1 + Trailing(n - 1) ELSE 0

\* C15: in a fresh uninterrupted run the stall counter saved in "latest" is
\* the number of most recent consecutive epochs without improvement, which is
\* the epoch of "latest" minus the epoch of "best", and 0 exactly when the two
\* slots hold the same epoch.
C15_StallIsDistance ==
    FreshRunning =>
        /\ latest.epochs_since_improvement = Trailing(Len(saved))
        /\ latest.epochs_since_improvement = latest.epoch - best.epoch
        /\ latest.epochs_since_improvement = 0 <=> latest.epoch = best.epoch

C15_Witness ==
    /\ FreshRunning
    /\ Len(saved) = 3
    /\ latest.epochs_since_improvement = 2
    /\ latest.epoch = 2
    /\ best.epoch = 0

\* the first epoch (counted from 1) whose score is the smallest so far
EarliestMin ==
    CHOOSE j \in 1..Len(Done) :
        /\ Done[j] = SeqMin(Done, Inf)
        /\ \A i \in 1..(j - 1) : Done[i] # Done[j]

\* C16: in a fresh uninterrupted run "best" holds the state of the earliest
\* epoch that reached the smallest MSE so far, with that MSE as its best
\* score, and the first completed epoch always writes "best".
C16_BestIsEarliestMin ==
    FreshRunning =>
        /\ best.best_loss = SeqMin(Done, Inf)
        /\ best = TrainingState(EarliestMin - 1, 0, EarliestMin * NumBatches,
                                EarliestMin * NumBatches, Done[EarliestMin])
        /\ Len(saved) = 1 => (best = latest /\ best.epoch = 0)

C16_Witness ==
    /\ FreshRunning
    /\ Done = <<2, 1, 1>>
    /\ best.epoch = 1
    /\ latest.epoch = 2
    /\ best.best_loss = 1

====
